---- MODULE Spec2Model ----
(***************************************************************************)
(* flux-enhanced-cli: one reconciliation run.                              *)
(*                                                                         *)
(* Spec       main.go's run: the shared context, the signal handler        *)
(*            goroutine, the flux subprocess, the stderr relay and         *)
(*            Monitor.WaitForReady's select loop, over a clock that counts *)
(*            seconds.                                                     *)
(* SpecEvents Monitor.checkEvents applied to an event feed that changes    *)
(*            between polls.                                               *)
(* SpecWatch  main together with its Monitor.Watch goroutine.              *)
(* SpecRelay  main up to the call of WaitForReady, with the lines flux     *)
(*            writes to its stderr and processStderr reading them.         *)
(* SpecMonitor WaitForReady of a Monitor built for any kind string.        *)
(* SpecLong   WaitForReady over more than two error-report windows.        *)
(* SpecProber checkResourceReady and getResourceStatus applied to a        *)
(*            fetched resource document.                                   *)
(* SpecLive   main and Watch under fair scheduling, without interrupts.    *)
(* SpecCalls  concurrent checkEvents calls on one Monitor.                 *)
(* SpecWait   main and WaitForReady while time passes and the context's    *)
(*            timer fires.                                                 *)
(*                                                                         *)
(* Strings that the code concatenates are sequences of symbols, so that    *)
(* the fingerprint is the concatenation the code builds.                   *)
(***************************************************************************)
EXTENDS Integers, Sequences, FiniteSets, TLC

(* ------------------------- program constants -------------------------- *)
\* time.NewTicker(2 * time.Second)
FastPollInterval == 2
\* time.NewTicker(10 * time.Second)
StatusInterval == 10
\* time.Since(lastStatusTime) > 10*time.Second
ErrorReportWindow == 10
\* const interruptWindowNano = int64(2 * time.Second)
interruptWindowNano == 2
\* os.Exit(130)
ForceExitCode == 130
\* i >= len(events.Items)-3
HashedEvents == 3
\* shown < 2
ShownEvents == 2

(* ------------------------------ bounds -------------------------------- *)
\* the --timeout values of the runs, in seconds
ShortTimeout == 1
TimeoutSecs == 11
\* the flux subprocess and the relay of its stderr end within this many seconds
MaxFluxSecs == 2
\* the clock stops here
MaxTime == 14
\* signals sent to the process during the run
MaxSignals == 2
\* time.Now().UnixNano() at process start, in seconds since the epoch
UnixStart == 3
\* longest event list the API returns
MaxEvents == 3
\* checkEvents calls of a run
MaxPolls == 3
\* longest status.conditions list of a resource document
MaxConds == 2
\* lines flux writes to its stderr
MaxLines == 2
\* the --timeout of the long runs, and where their clock stops
LongTimeout == 24
LongMaxTime == 24
\* concurrent checkEvents calls on one Monitor
MaxCallers == 2

VARIABLES
    now,               \* seconds since process start
    kind,              \* --kind
    sourceType,        \* --source-type
    wait,              \* --wait
    timeout,           \* --timeout, in seconds
    mainPc,            \* position of main
    exitStatus,        \* process exit status, -1 while running
    exitBy,            \* "none" | "main" | "signal": who ended the process
    eventMonitor,      \* TRUE iff eventMonitor != nil
    ctxErr,            \* ctx.Err(): "none" | "canceled" | "deadline"
    sigChan,           \* number of signals buffered in sigChan (capacity 1)
    sigsSent,          \* signals sent to the process so far
    sigsHandled,       \* signals received from sigChan so far
    closePair,         \* TRUE once two signals arrived less than the window apart
    lastInterruptNano, \* atomic.Int64
    interruptCount,    \* atomic.Int32
    cmdState,          \* "none" | "running" | "exited"
    cmdCode,           \* exit code of flux: 0, >0, or -1 when killed
    stderrDone,        \* processStderr has returned
    stderrPipe,        \* lines flux wrote to its stderr that nobody has read yet
    pipeClosed,        \* cmd.Wait has closed the read end of the stderr pipe
    relayed,           \* lines processStderr has passed on
    waitCalled,        \* WaitForReady has been called
    waitResult,        \* "none" | "Ready" | "Timeout" | "Cancelled"
    deadline,          \* WaitForReady's deadline
    tickerNext,        \* next firing time of ticker
    tickerC,           \* ticks buffered in ticker.C (capacity 1)
    statusNext,        \* next firing time of statusTicker
    statusC,           \* ticks buffered in statusTicker.C (capacity 1)
    lastStatusTime,    \* WaitForReady's lastStatusTime
    resReady,          \* the resource reports Ready=True
    apiUp,             \* a Get of the resource succeeds
    everReady,         \* the resource has reported Ready=True during the run
    v2Served,          \* the cluster serves helm.toolkit.fluxcd.io/v2
    gvr,               \* the coordinates WaitForReady resolved, "none" before
    calls,             \* the Status Prober calls of the latest tick WaitForReady handled
    errorReports,      \* "Unable to check status" lines printed so far
    items,             \* the event list the API returns now
    lastHash,          \* Monitor.lastHash
    printed,           \* notices printed by the latest checkEvents call
    polled,            \* a checkEvents call has listed the events successfully
    polls,             \* checkEvents calls so far
    prevItems,         \* the list the previous successful call saw
    lastShown,         \* the notices of the latest call that printed any
    listErr,           \* the List call of the latest checkEvents call failed
    watchPc,           \* Monitor.Watch: "none" | "running" | "returned"
    doc,               \* the resource document a Get returned
    readyResult,       \* what checkResourceReady returned for doc
    statusResult,      \* what getResourceStatus returned for doc
    mu,                \* Monitor.mu: the checkEvents call holding it, 0 when free
    callPc,            \* position of each concurrent checkEvents call
    callHash,          \* the local variable hash of each call
    callEmit           \* TRUE once the call has taken the branch that prints

mainVars == <<now, kind, sourceType, wait, timeout, mainPc, exitStatus, exitBy, eventMonitor,
              ctxErr, sigChan, sigsSent, sigsHandled, closePair,
              lastInterruptNano, interruptCount, cmdState, cmdCode, stderrDone,
              stderrPipe, pipeClosed, relayed,
              waitCalled, waitResult, deadline, tickerNext, tickerC, statusNext,
              statusC, lastStatusTime, resReady, apiUp, everReady, v2Served, gvr,
              calls, errorReports>>

pollVars == <<lastHash, printed, polled, polls, prevItems, lastShown, listErr>>

eventVars == <<items, pollVars, watchPc>>

proberVars == <<doc, readyResult, statusResult>>

callVars == <<mu, callPc, callHash, callEmit>>

vars == <<mainVars, eventVars, proberVars, callVars>>

(* ------------------------------ helpers ------------------------------- *)
Min(a, b) == IF a < b THEN a ELSE b

\* time.Now().UnixNano()
UnixNano(t) == UnixStart + t

\* os.Exit(code): the status the parent sees
ExitStatusOf(code) == code % 256

Running == exitStatus = -1

flagVars == <<kind, sourceType, wait, timeout>>
sigVars == <<sigChan, sigsSent, sigsHandled, closePair, lastInterruptNano,
             interruptCount>>
pipeVars == <<stderrPipe, pipeClosed, relayed>>
cmdVars == <<cmdState, cmdCode, stderrDone, pipeVars>>
loopVars == <<deadline, tickerNext, tickerC, statusNext, statusC, lastStatusTime, gvr,
              calls, errorReports>>
envVars == <<resReady, apiUp, everReady, v2Served>>

Kinds == {"helmrelease", "source", "ks"}
SourceTypes == {"git", "svn"}
Timeouts == {ShortTimeout, TimeoutSecs}
\* exit codes of a flux run that was not killed
FluxCodes == {0, 1}

(* ----------------------------- the context ---------------------------- *)
\* cancel(): the first cancellation of a context decides its error
cancel(err) == IF err = "none" THEN "canceled" ELSE err

\* monitorCtxDone for a Monitor whose ctx is not derived from main's
monitorCtxDoneNever == FALSE

\* the Monitor's ctx is a child of main's ctx; Stop runs only when main returns
monitorCtxDone == ctxErr # "none"

(* --------------------------- Resource Locator ------------------------- *)
\* a Get of the resource through the dynamic client, at the given coordinates
GetOk(g) ==
    /\ apiUp
    /\ ~monitorCtxDone
    /\ (g = "helm/v2" => v2Served)

\* getResourceGVR whose default case is the Git source
getResourceGVRDefaultGit(k) ==
    CASE k = "kustomization" -> "kustomize/v1"
      [] k = "helmrelease" -> IF GetOk("helm/v2") THEN "helm/v2" ELSE "helm/v2beta1"
      [] k \in {"oci", "ocirepository"} -> "source/v1beta2"
      [] OTHER -> "source/v1"

\* getResourceGVR that returns the failure of the v2 existence check
getResourceGVRProbeErr(k) ==
    CASE k = "kustomization" -> "kustomize/v1"
      [] k = "helmrelease" -> IF GetOk("helm/v2") THEN "helm/v2" ELSE "unsupported"
      [] k \in {"git", "gitrepository"} -> "source/v1"
      [] k \in {"oci", "ocirepository"} -> "source/v1beta2"
      [] OTHER -> "unsupported"

\* the coordinates for kind k, "unsupported" for the error of the default case
getResourceGVR(k) ==
    CASE k = "kustomization" -> "kustomize/v1"
      [] k = "helmrelease" -> IF GetOk("helm/v2") THEN "helm/v2" ELSE "helm/v2beta1"
      [] k \in {"git", "gitrepository"} -> "source/v1"
      [] k \in {"oci", "ocirepository"} -> "source/v1beta2"
      [] OTHER -> "unsupported"

\* monitorKind := *kind, or *sourceType for kind "source"
monitorKind == IF kind = "source" THEN sourceType ELSE kind

(* ---------------------------- Status Prober --------------------------- *)
\* checkResourceReady: <<ready, err>>
checkResourceReady(g) ==
    IF ~GetOk(g) THEN <<FALSE, TRUE>> ELSE <<resReady, FALSE>>

\* an entry of status.conditions; a string is a sequence of symbols. An entry that
\* is not a map[string]interface{} has isMap FALSE.
Cond(t, s, m) == [isMap |-> TRUE, type |-> t, status |-> s, message |-> m]
NotAMap == [isMap |-> FALSE, type |-> <<>>, status |-> <<>>, message |-> <<>>]

\* the entries of the modelled documents
Conditions ==
    { Cond(t, s, m) : t \in {<<"Ready">>, <<"Healthy">>},
                      s \in {<<"True">>, <<"False">>, <<"Unknown">>},
                      m \in {<<>>, <<"msg">>} } \cup {NotAMap}

\* a resource document: status is "missing", "notamap" or "map"; conditions is
\* "missing", "notalist" or "list"; list holds the entries of status.conditions
Doc(st, cs, l) == [status |-> st, conditions |-> cs, list |-> l]

Docs ==
    { Doc("missing", "missing", <<>>), Doc("notamap", "missing", <<>>),
      Doc("map", "missing", <<>>), Doc("map", "notalist", <<>>) }
    \cup { Doc("map", "list", l) :
              l \in UNION { [1..n -> Conditions] : n \in 0..MaxConds } }

\* the loop of checkResourceReady over conditions, from index i
RECURSIVE ReadyFrom(_, _)
ReadyFrom(conditions, i) ==
    IF i > Len(conditions) THEN FALSE
    ELSE IF ~conditions[i].isMap THEN ReadyFrom(conditions, i + 1)
    ELSE IF conditions[i].type = <<"Ready">> /\ conditions[i].status = <<"True">> THEN TRUE
    ELSE ReadyFrom(conditions, i + 1)

\* checkResourceReadyDoc that decides on the first Ready condition it meets
checkResourceReadyFirstReady(d) ==
    IF d.status # "map" \/ d.conditions # "list"
    THEN [ready |-> FALSE, err |-> d.status = "notamap" \/ d.conditions = "notalist"]
    ELSE [ready |-> \E i \in 1..Len(d.list) :
                        /\ d.list[i].isMap
                        /\ d.list[i].type = <<"Ready">>
                        /\ d.list[i].status = <<"True">>
                        /\ \A j \in 1..(i - 1) : d.list[j].type # <<"Ready">>,
          err |-> FALSE]

\* checkResourceReady after a Get that returned document d
checkResourceReadyDoc(d) ==
    IF d.status # "map" THEN [ready |-> FALSE, err |-> d.status = "notamap"]
    ELSE IF d.conditions # "list" THEN [ready |-> FALSE, err |-> d.conditions = "notalist"]
    ELSE [ready |-> ReadyFrom(d.list, 1), err |-> FALSE]

\* strings.Join(parts, ", ")
RECURSIVE Join(_)
Join(parts) ==
    IF Len(parts) = 0 THEN <<>>
    ELSE IF Len(parts) = 1 THEN parts[1]
    ELSE parts[1] \o <<", ">> \o Join(Tail(parts))

\* fmt.Sprintf("%s=%s (%s)", ...) or fmt.Sprintf("%s=%s", ...) for the Ready condition
ReadyPart(c) ==
    IF c.message # <<>>
    THEN c.type \o <<"=">> \o c.status \o <<" (">> \o c.message \o <<")">>
    ELSE c.type \o <<"=">> \o c.status

\* OtherPart in the format of the Ready entry
OtherPartAsReady(c) == c.type \o <<"=">> \o c.status \o <<" (">> \o c.message \o <<")">>

\* fmt.Sprintf("%s=%s: %s", condType, condStatus, condMessage)
OtherPart(c) == c.type \o <<"=">> \o c.status \o <<": ">> \o c.message

\* the loop of getResourceStatus over conditions, from index i, with statusParts
RECURSIVE StatusFrom(_, _, _)
StatusFrom(conditions, i, statusParts) ==
    IF i > Len(conditions)
    THEN IF Len(statusParts) = 0
         THEN [status |-> "checking", message |-> <<>>]
         ELSE [status |-> "not ready", message |-> Join(statusParts)]
    ELSE LET c == conditions[i]
         IN  IF ~c.isMap THEN StatusFrom(conditions, i + 1, statusParts)
             ELSE IF c.type = <<"Ready">>
                  THEN IF c.status = <<"True">>
                       THEN [status |-> "ready", message |-> <<"Ready=True">>]
                       ELSE StatusFrom(conditions, i + 1, Append(statusParts, ReadyPart(c)))
                  ELSE IF c.status = <<"False">> /\ c.message # <<>>
                       THEN StatusFrom(conditions, i + 1, Append(statusParts, OtherPart(c)))
                       ELSE StatusFrom(conditions, i + 1, statusParts)

\* getResourceStatus after a Get that returned document d
getResourceStatusDoc(d) ==
    IF d.status # "map" THEN [status |-> "unknown", message |-> <<>>]
    ELSE IF d.conditions # "list" THEN [status |-> "no conditions", message |-> <<>>]
    ELSE StatusFrom(d.list, 1, <<>>)

(* ------------------------------- Init --------------------------------- *)
InitMain ==
    /\ now = 0
    /\ kind \in Kinds
    /\ sourceType \in (IF kind = "source" THEN SourceTypes ELSE {"git"})
    /\ wait \in BOOLEAN
    /\ timeout \in Timeouts
    /\ mainPc = "setup"
    /\ exitStatus = -1
    /\ exitBy = "none"
    /\ eventMonitor = FALSE
    /\ ctxErr = "none"
    /\ sigChan = 0
    /\ sigsSent = 0
    /\ sigsHandled = 0
    /\ closePair = FALSE
    /\ lastInterruptNano = 0
    /\ interruptCount = 0
    /\ cmdState = "none"
    /\ cmdCode = 0
    /\ stderrDone = FALSE
    /\ stderrPipe = 0
    /\ pipeClosed = FALSE
    /\ relayed = 0
    /\ waitCalled = FALSE
    /\ waitResult = "none"
    /\ deadline = 0
    /\ tickerNext = 0
    /\ tickerC = 0
    /\ statusNext = 0
    /\ statusC = 0
    /\ lastStatusTime = 0
    /\ resReady \in BOOLEAN
    /\ apiUp \in BOOLEAN
    /\ everReady = resReady
    /\ v2Served \in (IF kind = "helmrelease" THEN BOOLEAN ELSE {TRUE})
    /\ gvr = "none"
    /\ calls = <<>>
    /\ errorReports = 0

InitEventsIdle ==
    /\ items = <<>>
    /\ lastHash = <<>>
    /\ printed = <<>>
    /\ polled = FALSE
    /\ polls = 0
    /\ prevItems = <<>>
    /\ lastShown = <<>>
    /\ listErr = FALSE
    /\ watchPc = "none"

\* no document has been fetched
InitProberIdle ==
    /\ doc = Doc("missing", "missing", <<>>)
    /\ readyResult = [called |-> FALSE, ready |-> FALSE, err |-> FALSE]
    /\ statusResult = [called |-> FALSE, status |-> "", message |-> <<>>]

\* no checkEvents call is in progress and the mutex is free
InitCallsIdle ==
    /\ mu = 0
    /\ callPc = [c \in 1..MaxCallers |-> "idle"]
    /\ callHash = [c \in 1..MaxCallers |-> <<>>]
    /\ callEmit = [c \in 1..MaxCallers |-> FALSE]

Init == InitMain /\ InitEventsIdle /\ InitProberIdle /\ InitCallsIdle

(* ------------------------------ os.Exit ------------------------------- *)
Exit(code, who) ==
    /\ exitStatus' = ExitStatusOf(code)
    /\ exitBy' = who

(* ------------------------------- main --------------------------------- *)
\* flag validation, context.WithTimeout, signal.Notify, NewMonitor and
\* go eventMonitor.Watch()
mainSetup ==
    /\ Running
    /\ mainPc = "setup"
    /\ IF kind = "source" /\ sourceType \notin {"git", "oci"}
       THEN /\ Exit(1, "main")
            /\ UNCHANGED <<mainPc, eventMonitor, watchPc>>
       ELSE /\ \E ok \in BOOLEAN :
                eventMonitor' = (kind \in {"kustomization", "helmrelease", "source"} /\ ok)
            /\ watchPc' = IF eventMonitor' THEN "running" ELSE "none"
            /\ mainPc' = "startCmd"
            /\ UNCHANGED <<exitStatus, exitBy>>
    /\ UNCHANGED <<now, flagVars, ctxErr, sigVars, cmdVars, waitCalled, waitResult,
                   loopVars, envVars, items, pollVars, proberVars, callVars>>

\* exec.CommandContext, cmd.StderrPipe, cmd.Start, go processStderr
mainStartCmd ==
    /\ Running
    /\ mainPc = "startCmd"
    /\ \E started \in BOOLEAN :
        IF started /\ ctxErr = "none"
        THEN /\ cmdState' = "running"
             /\ mainPc' = "cmdWait"
             /\ UNCHANGED <<exitStatus, exitBy>>
        ELSE /\ Exit(1, "main")
             /\ UNCHANGED <<cmdState, mainPc>>
    /\ UNCHANGED <<now, flagVars, eventMonitor, ctxErr, sigVars, cmdCode, stderrDone,
                   pipeVars, waitCalled, waitResult, loopVars, envVars, eventVars, proberVars, callVars>>

\* the flux subprocess exits by itself
fluxExits ==
    /\ Running
    /\ cmdState = "running"
    /\ \E code \in FluxCodes : cmdCode' = code
    /\ cmdState' = "exited"
    /\ UNCHANGED <<now, flagVars, mainPc, exitStatus, exitBy, eventMonitor, ctxErr,
                   sigVars, stderrDone, pipeVars, waitCalled, waitResult, loopVars,
                   envVars, eventVars, proberVars, callVars>>

\* exec.CommandContext kills the subprocess once ctx is done
fluxKilled ==
    /\ Running
    /\ cmdState = "running"
    /\ ctxErr # "none"
    /\ cmdCode' = -1
    /\ cmdState' = "exited"
    /\ UNCHANGED <<now, flagVars, mainPc, exitStatus, exitBy, eventMonitor, ctxErr,
                   sigVars, stderrDone, pipeVars, waitCalled, waitResult, loopVars,
                   envVars, eventVars, proberVars, callVars>>

\* the flux subprocess writes a line to its stderr
fluxWrites ==
    /\ Running
    /\ cmdState = "running"
    /\ stderrPipe + relayed < MaxLines
    /\ stderrPipe' = stderrPipe + 1
    /\ UNCHANGED <<now, flagVars, mainPc, exitStatus, exitBy, eventMonitor, ctxErr,
                   sigVars, cmdState, cmdCode, stderrDone, pipeClosed, relayed,
                   waitCalled, waitResult, loopVars, envVars, eventVars, proberVars, callVars>>

\* processStderr, scanner.Scan() returns true: a line is read and passed on
stderrScan ==
    /\ Running
    /\ cmdState # "none"
    /\ ~stderrDone
    /\ stderrPipe > 0
    /\ ~pipeClosed
    /\ stderrPipe' = stderrPipe - 1
    /\ relayed' = relayed + 1
    /\ UNCHANGED <<now, flagVars, mainPc, exitStatus, exitBy, eventMonitor, ctxErr,
                   sigVars, cmdState, cmdCode, stderrDone, pipeClosed,
                   waitCalled, waitResult, loopVars, envVars, eventVars, proberVars, callVars>>

\* processStderr, scanner.Scan() returns false and wg.Done runs: the stream has
\* ended, or the read fails because cmd.Wait has closed the pipe
processStderr ==
    /\ Running
    /\ ~stderrDone
    /\ \/ cmdState = "exited" /\ stderrPipe = 0
       \/ pipeClosed
    /\ stderrDone' = TRUE
    /\ UNCHANGED <<now, flagVars, mainPc, exitStatus, exitBy, eventMonitor, ctxErr,
                   sigVars, cmdState, cmdCode, pipeVars, waitCalled, waitResult,
                   loopVars, envVars, eventVars, proberVars, callVars>>

\* cmdErr := cmd.Wait(): returns once flux has exited, and closes the read end of
\* the pipe that cmd.StderrPipe returned
mainCmdWait ==
    /\ Running
    /\ mainPc = "cmdWait"
    /\ cmdState = "exited"
    /\ mainPc' = "stderrWait"
    /\ pipeClosed' = TRUE
    /\ UNCHANGED <<now, flagVars, exitStatus, exitBy, eventMonitor, ctxErr, sigVars,
                   cmdState, cmdCode, stderrDone, stderrPipe, relayed, waitCalled,
                   waitResult, loopVars, envVars, eventVars, proberVars, callVars>>

\* WaitForReady up to its loop: deadline, the two tickers, getResourceGVR
WaitForReadyEnter ==
    /\ waitCalled' = TRUE
    /\ deadline' = now + timeout
    /\ tickerNext' = now + FastPollInterval
    /\ statusNext' = now + StatusInterval
    /\ tickerC' = 0
    /\ statusC' = 0
    /\ lastStatusTime' = now
    /\ gvr' = getResourceGVR(monitorKind)
    /\ calls' = <<>>
    /\ errorReports' = 0
    /\ IF gvr' = "unsupported"
       THEN /\ waitResult' = "Unsupported"
            /\ Exit(1, "main")
            /\ UNCHANGED mainPc
       ELSE /\ mainPc' = "waitLoop"
            /\ UNCHANGED <<waitResult, exitStatus, exitBy>>

\* AfterCmd with the check of cmdErr placed after the wait phase
AfterCmdWaitFirst(code, w, monitor) ==
    IF w /\ monitor THEN "wait"
    ELSE IF code # 0 THEN "exit"
    ELSE "return"

\* what main does with cmdErr: "exit" with flux's code, "wait" for the
\* reconciliation, or "return"
AfterCmd(code, w, monitor) ==
    IF code # 0 THEN "exit"
    ELSE IF w /\ monitor THEN "wait"
    ELSE "return"

\* stderrWg.Wait(), the exit error of flux, and the call of WaitForReady
mainAfterCmd ==
    /\ Running
    /\ mainPc = "stderrWait"
    /\ stderrDone
    /\ LET todo == AfterCmd(cmdCode, wait, eventMonitor)
       IN  CASE todo = "exit" ->
                  /\ Exit(cmdCode, "main")
                  /\ UNCHANGED <<mainPc, waitCalled, waitResult, loopVars>>
             [] todo = "wait" -> WaitForReadyEnter
             [] OTHER ->
                  /\ Exit(0, "main")
                  /\ UNCHANGED <<mainPc, waitCalled, waitResult, loopVars>>
    /\ UNCHANGED <<now, flagVars, eventMonitor, ctxErr, sigVars, cmdVars, envVars,
                   eventVars, proberVars, callVars>>

(* ------------------------ WaitForReady's loop ------------------------- *)
\* ProbeGVR that resolves the coordinates again for every call
ProbeGVRReResolved(resolved) == getResourceGVR(monitorKind)

\* the coordinates WaitForReady passes to checkResourceReady and getResourceStatus
ProbeGVR(resolved) == resolved

\* a call of the Status Prober
Call(fn, g) == [fn |-> fn, gvr |-> g]

\* TickCalls that probes the readiness before it looks at the deadline
TickCallsProbeFirst(late) ==
    IF late THEN <<"checkResourceReady", "getResourceStatus">>
    ELSE <<"checkResourceReady">>

\* the Status Prober functions one fast-poll tick calls, in order
TickCalls(late) ==
    IF late THEN <<"getResourceStatus">> ELSE <<"checkResourceReady">>

\* time.Now().After(deadline)
AfterDeadline(t, d) == t > d

\* TickOutcome with a probe error returned to the caller
TickOutcomeErrReturned(late, ready, err) ==
    IF late THEN "Timeout"
    ELSE IF err THEN "ProbeError"
    ELSE IF ready THEN "Ready"
    ELSE "continue"

\* TickOutcome with the readiness of the resource only reported at the deadline
TickOutcomeReadyIgnored(late, ready, err) ==
    IF late THEN (IF ready /\ ~err THEN "Ready" ELSE "Timeout")
    ELSE "continue"

\* TickOutcome that looks at the probe's result before the deadline
TickOutcomeProbeBeforeDeadline(late, ready, err) ==
    IF ready /\ ~err THEN "Ready"
    ELSE IF late THEN "Timeout"
    ELSE "continue"

\* what one fast-poll tick does, given the deadline check and the probe's result:
\* "Timeout" and "Ready" return from WaitForReady, "continue" stays in the loop
TickOutcome(late, ready, err) ==
    IF late THEN "Timeout"
    ELSE IF err THEN "continue"
    ELSE IF ready THEN "Ready"
    ELSE "continue"

\* ErrorReportDue without the rate limit
ErrorReportDueAlways(t, last) == TRUE

\* the error report of a failed probe is due
ErrorReportDue(t, last) == t - last > ErrorReportWindow

\* WaitForReady returns r to main: PrintError and os.Exit(1), or PrintSuccess and
\* the return from main
WaitForReadyReturn(r) ==
    /\ waitResult' = r
    /\ Exit(IF r = "Ready" THEN 0 ELSE 1, "main")

\* case <-ctx.Done(): return ctx.Err()
WaitCtxDone ==
    /\ Running
    /\ mainPc = "waitLoop"
    /\ ctxErr # "none"
    /\ WaitForReadyReturn("Cancelled")
    /\ UNCHANGED <<now, flagVars, mainPc, eventMonitor, ctxErr, sigVars, cmdVars,
                   waitCalled, loopVars, envVars, eventVars, proberVars, callVars>>

\* case <-statusTicker.C: getResourceStatus and the progress lines
WaitStatusTick ==
    /\ Running
    /\ mainPc = "waitLoop"
    /\ statusC = 1
    /\ statusC' = 0
    /\ calls' = <<Call("getResourceStatus", ProbeGVR(gvr))>>
    /\ UNCHANGED <<now, flagVars, mainPc, exitStatus, exitBy, eventMonitor, ctxErr,
                   sigVars, cmdVars, waitCalled, waitResult, deadline, tickerNext,
                   tickerC, statusNext, lastStatusTime, gvr, errorReports, envVars,
                   eventVars, proberVars, callVars>>

\* case <-ticker.C: the deadline check, then checkResourceReady
WaitFastTick ==
    /\ Running
    /\ mainPc = "waitLoop"
    /\ tickerC = 1
    /\ tickerC' = 0
    /\ LET late == AfterDeadline(now, deadline)
           probe == checkResourceReady(ProbeGVR(gvr))
           out == TickOutcome(late, probe[1], probe[2])
           fns == TickCalls(late)
       IN  /\ calls' = [i \in 1..Len(fns) |-> Call(fns[i], ProbeGVR(gvr))]
           /\ IF out = "continue"
              THEN UNCHANGED <<waitResult, exitStatus, exitBy>>
              ELSE WaitForReadyReturn(out)
           /\ IF ~late /\ probe[2] /\ ErrorReportDue(now, lastStatusTime)
              THEN /\ errorReports' = errorReports + 1
                   /\ lastStatusTime' = now
              ELSE UNCHANGED <<errorReports, lastStatusTime>>
    /\ UNCHANGED <<now, flagVars, mainPc, eventMonitor, ctxErr, sigVars, cmdVars,
                   waitCalled, deadline, tickerNext, statusNext, statusC, gvr,
                   envVars, eventVars, proberVars, callVars>>

(* ------------------------- Interrupt Coordinator ---------------------- *)
\* WithinWindow with <= for <
WithinWindowInclusive(nowNano, lastNano) == nowNano - lastNano <= interruptWindowNano

\* nowNano-lastNano < interruptWindowNano
WithinWindow(nowNano, lastNano) == nowNano - lastNano < interruptWindowNano

\* NextCount that stores 1 on every signal
NextCountStoreOnly(within, count) == 1

\* interruptCount.Add(1) or interruptCount.Store(1)
NextCount(within, count) == IF within THEN count + 1 ELSE 1

\* SIGINT or SIGTERM arrives: signal.Notify's send does not block, a signal that
\* finds sigChan full is dropped. The goroutine receives a buffered signal within
\* the second it arrived in (AdvanceTime), so the time of the latest arrival is
\* the time of the latest receipt, or now while sigChan is full.
signalArrives ==
    /\ Running
    /\ mainPc # "setup"
    /\ sigsSent < MaxSignals
    /\ sigsSent' = sigsSent + 1
    /\ sigChan' = 1
    /\ closePair' = (closePair \/ sigChan = 1 \/
                        (sigsHandled > 0 /\
                         UnixNano(now) - lastInterruptNano < interruptWindowNano))
    /\ UNCHANGED <<now, flagVars, mainPc, exitStatus, exitBy, eventMonitor, ctxErr,
                   sigsHandled, lastInterruptNano, interruptCount, cmdVars, waitCalled,
                   waitResult, loopVars, envVars, eventVars, proberVars, callVars>>

\* one round of the signal goroutine's loop
signalHandler ==
    /\ Running
    /\ sigChan = 1
    /\ sigChan' = 0
    /\ sigsHandled' = sigsHandled + 1
    /\ LET nowNano == UnixNano(now)
           count == NextCount(WithinWindow(nowNano, lastInterruptNano), interruptCount)
       IN  /\ interruptCount' = count
           /\ lastInterruptNano' = nowNano
           /\ IF count = 1
              THEN /\ ctxErr' = cancel(ctxErr)
                   /\ UNCHANGED <<exitStatus, exitBy>>
              ELSE IF count >= 2
                   THEN /\ Exit(ForceExitCode, "signal")
                        /\ UNCHANGED ctxErr
                   ELSE UNCHANGED <<ctxErr, exitStatus, exitBy>>
    /\ UNCHANGED <<now, flagVars, mainPc, eventMonitor, sigsSent, closePair,
                   cmdVars, waitCalled, waitResult, loopVars, envVars, eventVars, proberVars, callVars>>

(* --------------------------- time, environment ------------------------ *)
\* context.WithTimeout(context.Background(), *timeout): once the timeout has
\* passed, the timer's goroutine closes Done; nothing bounds how much later the
\* other goroutines see it
\* DeadlineReachedNever: a context without a deadline
DeadlineReachedNever(t, d) == FALSE

\* the deadline of context.WithTimeout(context.Background(), timeout) has come
DeadlineReached(t, d) == t >= d

\* the timer of the context fires: ctx.Done() is closed, ctx.Err() is
\* context.DeadlineExceeded
ctxTimeout ==
    /\ Running
    /\ ctxErr = "none"
    /\ DeadlineReached(now, timeout)
    /\ ctxErr' = "deadline"
    /\ UNCHANGED <<now, flagVars, mainPc, exitStatus, exitBy, eventMonitor, sigVars,
                   cmdVars, waitCalled, waitResult, loopVars, envVars, eventVars, proberVars, callVars>>

\* a ticker that is due sends into its channel unless the channel is full
Fire(c, next, t) == IF t >= next THEN 1 ELSE c
Rearm(next, period, t) == IF t >= next THEN next + period ELSE next

\* one second passes, up to the given time; the tickers of a running WaitForReady
\* fire on time
TimePasses(limit) ==
    /\ Running
    /\ mainPc # "setup"
    /\ now < limit
    /\ (mainPc # "waitLoop" => now < MaxFluxSecs)
    /\ sigChan = 0
    /\ now' = now + 1
    /\ IF mainPc = "waitLoop"
       THEN /\ tickerC' = Fire(tickerC, tickerNext, now')
            /\ tickerNext' = Rearm(tickerNext, FastPollInterval, now')
            /\ statusC' = Fire(statusC, statusNext, now')
            /\ statusNext' = Rearm(statusNext, StatusInterval, now')
       ELSE UNCHANGED <<tickerC, tickerNext, statusC, statusNext>>
    /\ UNCHANGED <<flagVars, mainPc, exitStatus, exitBy, eventMonitor, ctxErr, sigVars,
                   cmdVars, waitCalled, waitResult, deadline, lastStatusTime, gvr,
                   calls, errorReports, envVars, eventVars, proberVars, callVars>>

AdvanceTime == TimePasses(MaxTime)

\* the control plane changes the resource's Ready condition
resourceChanges ==
    /\ Running
    /\ mainPc = "waitLoop"
    /\ resReady' = ~resReady
    /\ everReady' = (everReady \/ resReady')
    /\ UNCHANGED <<now, flagVars, mainPc, exitStatus, exitBy, eventMonitor, ctxErr,
                   sigVars, cmdVars, waitCalled, waitResult, loopVars, apiUp, v2Served,
                   eventVars, proberVars, callVars>>

\* the API server becomes unreachable, or reachable again
apiChanges ==
    /\ Running
    /\ mainPc = "waitLoop"
    /\ apiUp' = ~apiUp
    /\ UNCHANGED <<now, flagVars, mainPc, exitStatus, exitBy, eventMonitor, ctxErr,
                   sigVars, cmdVars, waitCalled, waitResult, loopVars, resReady,
                   everReady, v2Served, eventVars, proberVars, callVars>>

Next ==
    \/ mainSetup
    \/ mainStartCmd
    \/ fluxExits
    \/ fluxKilled
    \/ processStderr
    \/ mainCmdWait
    \/ mainAfterCmd
    \/ WaitCtxDone
    \/ WaitStatusTick
    \/ WaitFastTick
    \/ signalArrives
    \/ signalHandler
    \/ ctxTimeout
    \/ AdvanceTime
    \/ resourceChanges
    \/ apiChanges

Spec == Init /\ [][Next]_vars

(* -------------------------- Event Deduplicator ------------------------ *)
\* corev1.Event, the fields checkEvents reads; a string is a sequence of symbols
Event(r, t, m) == [reason |-> r, type |-> t, message |-> m]
\* the events of the modelled feeds
Events ==
    { Event(<<>>, <<"Normal">>, <<>>),
      Event(<<>>, <<"Normal">>, <<"HealthCheckFailed">>),
      Event(<<"HealthCheckFailed">>, <<"Normal">>, <<>>),
      Event(<<>>, <<"Warning">>, <<>>) }

\* fmt.Sprintf("%s:%s:%s", evt.Reason, evt.Type, evt.Message)
Sprintf(evt) == evt.reason \o <<":">> \o evt.type \o <<":">> \o evt.message

\* the loop that builds hash, from index i (1-based) down to the third from the end
RECURSIVE HashFrom(_, _)
HashFrom(list, i) ==
    IF i >= 1 /\ i >= Len(list) - HashedEvents + 1
    THEN Sprintf(list[i]) \o HashFrom(list, i - 1)
    ELSE <<>>

Fingerprint(list) == HashFrom(list, Len(list))

\* the classification of an event
isWarning(evt) ==
    \/ evt.type = <<"Warning">>
    \/ evt.reason = <<"HealthCheckFailed">>
    \/ evt.reason = <<"DependencyNotReady">>

\* the loop that prints the most recent events, from index i down, shown so far
RECURSIVE ShowFrom(_, _, _)
ShowFrom(list, i, shown) ==
    IF i >= 1 /\ shown < ShownEvents
    THEN <<[reason |-> list[i].reason, message |-> list[i].message,
            isWarning |-> isWarning(list[i])]>> \o ShowFrom(list, i - 1, shown + 1)
    ELSE <<>>

\* KeptHash: UpdatedHash without the assignment m.lastHash = hash
KeptHash(hash, last) == last

\* m.lastHash after the comparison hash != m.lastHash
UpdatedHash(hash, last) == hash

\* checkEventsResult that forgets lastHash when the List call fails
checkEventsResultErrForgets(err, list, last) ==
    IF err THEN [lastHash |-> <<>>, printed |-> <<>>]
    ELSE IF Len(list) = 0 THEN [lastHash |-> last, printed |-> <<>>]
    ELSE LET hash == Fingerprint(list)
         IN  IF hash # last
             THEN [lastHash |-> UpdatedHash(hash, last),
                   printed |-> ShowFrom(list, Len(list), 0)]
             ELSE [lastHash |-> last, printed |-> <<>>]

\* what one call of checkEvents leaves in m.lastHash and what it prints, given the
\* result of the List call
checkEventsResult(err, list, last) ==
    IF err THEN [lastHash |-> last, printed |-> <<>>]
    ELSE IF Len(list) = 0 THEN [lastHash |-> last, printed |-> <<>>]
    ELSE LET hash == Fingerprint(list)
         IN  IF hash # last
             THEN [lastHash |-> UpdatedHash(hash, last),
                   printed |-> ShowFrom(list, Len(list), 0)]
             ELSE [lastHash |-> last, printed |-> <<>>]

\* one call of checkEvents; the List call fails (always so once m.ctx is done) or
\* returns items
checkEvents ==
    /\ polls < MaxPolls
    /\ polls' = polls + 1
    /\ \E err \in (IF monitorCtxDone THEN {TRUE} ELSE BOOLEAN) :
        LET res == checkEventsResult(err, items, lastHash)
        IN  /\ listErr' = err
            /\ lastHash' = res.lastHash
            /\ printed' = res.printed
            /\ lastShown' = IF res.printed # <<>> THEN res.printed ELSE lastShown
            /\ IF err
               THEN UNCHANGED <<polled, prevItems>>
               ELSE /\ polled' = TRUE
                    /\ prevItems' = items
    /\ UNCHANGED <<mainVars, proberVars, callVars, items, watchPc>>

\* the control plane records a new event for the resource
eventRecorded ==
    /\ Len(items) < MaxEvents
    /\ \E evt \in Events : items' = Append(items, evt)
    /\ UNCHANGED <<mainVars, proberVars, callVars, pollVars, watchPc>>

\* an event of the list is replaced by another one (a repeated event is updated
\* in place, an expired one gives way to the next)
eventReplaced ==
    /\ \E i \in 1..Len(items), evt \in Events :
        /\ evt # items[i]
        /\ items' = [items EXCEPT ![i] = evt]
    /\ UNCHANGED <<mainVars, proberVars, callVars, pollVars, watchPc>>

\* the oldest event of the list expires
eventExpired ==
    /\ Len(items) > 0
    /\ items' = Tail(items)
    /\ UNCHANGED <<mainVars, proberVars, callVars, pollVars, watchPc>>

NextEvents ==
    \/ checkEvents
    \/ eventRecorded
    \/ eventReplaced
    \/ eventExpired

\* a run of the Monitor's Watch loop before main has moved
InitEvents ==
    /\ InitMain
    /\ kind = "helmrelease"
    /\ wait
    /\ timeout = TimeoutSecs
    /\ ~resReady
    /\ apiUp
    /\ v2Served
    /\ InitEventsIdle
    /\ InitProberIdle
    /\ InitCallsIdle

SpecEvents == InitEvents /\ [][NextEvents]_vars

(* ---------------------------- Event Watcher --------------------------- *)
\* Watch, case <-ticker.C: m.checkEvents()
WatchTick ==
    /\ Running
    /\ watchPc = "running"
    /\ checkEvents

\* Watch, case <-m.ctx.Done(): return
WatchCtxDone ==
    /\ Running
    /\ watchPc = "running"
    /\ monitorCtxDone
    /\ watchPc' = "returned"
    /\ UNCHANGED <<mainVars, proberVars, callVars, items, pollVars>>

\* the event lists of the runs of SpecWatch
WatchedLists == {<<>>, <<Event(<<>>, <<"Warning">>, <<>>)>>}

\* a run of main for a HelmRelease with --wait, without interrupts
InitWatch ==
    /\ InitMain
    /\ kind = "helmrelease"
    /\ wait
    /\ items \in WatchedLists
    /\ lastHash = <<>>
    /\ printed = <<>>
    /\ polled = FALSE
    /\ polls = 0
    /\ prevItems = <<>>
    /\ lastShown = <<>>
    /\ listErr = FALSE
    /\ watchPc = "none"
    /\ InitProberIdle
    /\ InitCallsIdle

NextWatch ==
    \/ mainSetup
    \/ mainStartCmd
    \/ fluxExits
    \/ fluxKilled
    \/ processStderr
    \/ mainCmdWait
    \/ mainAfterCmd
    \/ WaitCtxDone
    \/ WaitStatusTick
    \/ WaitFastTick
    \/ ctxTimeout
    \/ AdvanceTime
    \/ resourceChanges
    \/ apiChanges
    \/ WatchTick
    \/ WatchCtxDone

\* main and its Watch goroutine together
SpecWatch == InitWatch /\ [][NextWatch]_vars

(* ------------------------- fair scheduling ---------------------------- *)
\* main with its Watch goroutine, in runs without interrupts: the context is
\* cancelled by its timeout
NextLive ==
    \/ mainSetup
    \/ mainStartCmd
    \/ fluxExits
    \/ fluxKilled
    \/ processStderr
    \/ mainCmdWait
    \/ mainAfterCmd
    \/ WaitCtxDone
    \/ WaitStatusTick
    \/ WaitFastTick
    \/ ctxTimeout
    \/ AdvanceTime
    \/ WatchTick
    \/ WatchCtxDone

\* a run of main for a HelmRelease that does not become Ready, with --wait
InitLive ==
    /\ InitMain
    /\ kind = "helmrelease"
    /\ wait
    /\ ~resReady
    /\ apiUp
    /\ v2Served
    /\ InitEventsIdle
    /\ InitProberIdle
    /\ InitCallsIdle

\* a select whose ctx.Done() case stays ready takes it in the end: the runtime
\* chooses among the ready cases at random and schedules every goroutine
SpecLive ==
    /\ InitLive
    /\ [][NextLive]_vars
    /\ WF_vars(WatchCtxDone)
    /\ WF_vars(WaitCtxDone)

\* main and WaitForReady without the Watch goroutine and without interrupts
NextWait ==
    \/ mainSetup
    \/ mainStartCmd
    \/ fluxExits
    \/ fluxKilled
    \/ processStderr
    \/ mainCmdWait
    \/ mainAfterCmd
    \/ WaitCtxDone
    \/ WaitStatusTick
    \/ WaitFastTick
    \/ ctxTimeout
    \/ AdvanceTime

\* a run of main with --wait, whatever the cluster answers
InitWait ==
    /\ InitMain
    /\ wait
    /\ InitEventsIdle
    /\ InitProberIdle
    /\ InitCallsIdle

\* time passes, the context's timer fires once its deadline has come, and the
\* select of WaitForReady takes its ctx.Done() case in the end; nothing is
\* assumed about the ticker cases
SpecWait ==
    /\ InitWait
    /\ [][NextWait]_vars
    /\ WF_vars(AdvanceTime)
    /\ WF_vars(ctxTimeout)
    /\ WF_vars(WaitCtxDone)

(* ------------------------- a Monitor of any kind ---------------------- *)
\* the kind strings NewMonitor is given in the runs of SpecMonitor
MonitorKinds ==
    {"kustomization", "helmrelease", "git", "gitrepository", "oci", "ocirepository",
     "bucket", ""}

\* a Monitor that NewMonitor built for any kind string, Watch running, just
\* before its caller calls WaitForReady as main does after a successful flux run
InitMonitor ==
    /\ now = 0
    /\ kind \in MonitorKinds
    /\ sourceType = "git"
    /\ wait = TRUE
    /\ timeout \in Timeouts
    /\ mainPc = "stderrWait"
    /\ exitStatus = -1
    /\ exitBy = "none"
    /\ eventMonitor = TRUE
    /\ ctxErr = "none"
    /\ sigChan = 0
    /\ sigsSent = 0
    /\ sigsHandled = 0
    /\ closePair = FALSE
    /\ lastInterruptNano = 0
    /\ interruptCount = 0
    /\ cmdState = "exited"
    /\ cmdCode = 0
    /\ stderrDone = TRUE
    /\ stderrPipe = 0
    /\ pipeClosed = TRUE
    /\ relayed = 0
    /\ waitCalled = FALSE
    /\ waitResult = "none"
    /\ deadline = 0
    /\ tickerNext = 0
    /\ tickerC = 0
    /\ statusNext = 0
    /\ statusC = 0
    /\ lastStatusTime = 0
    /\ resReady \in BOOLEAN
    /\ apiUp \in BOOLEAN
    /\ everReady = resReady
    /\ v2Served \in (IF kind = "helmrelease" THEN BOOLEAN ELSE {TRUE})
    /\ gvr = "none"
    /\ calls = <<>>
    /\ errorReports = 0
    /\ InitEventsIdle
    /\ InitProberIdle
    /\ InitCallsIdle

NextMonitor ==
    \/ mainAfterCmd
    \/ WaitCtxDone
    \/ WaitStatusTick
    \/ WaitFastTick
    \/ ctxTimeout
    \/ AdvanceTime
    \/ resourceChanges
    \/ apiChanges

\* WaitForReady of a Monitor of any kind
SpecMonitor == InitMonitor /\ [][NextMonitor]_vars

(* ------------------------------ a long wait --------------------------- *)
\* one second of a long run passes
AdvanceTimeLong == TimePasses(LongMaxTime)

\* a HelmRelease Monitor just before WaitForReady is called with a long timeout
InitLong ==
    /\ now = 0
    /\ kind = "helmrelease"
    /\ sourceType = "git"
    /\ wait = TRUE
    /\ timeout = LongTimeout
    /\ mainPc = "stderrWait"
    /\ exitStatus = -1
    /\ exitBy = "none"
    /\ eventMonitor = TRUE
    /\ ctxErr = "none"
    /\ sigChan = 0
    /\ sigsSent = 0
    /\ sigsHandled = 0
    /\ closePair = FALSE
    /\ lastInterruptNano = 0
    /\ interruptCount = 0
    /\ cmdState = "exited"
    /\ cmdCode = 0
    /\ stderrDone = TRUE
    /\ stderrPipe = 0
    /\ pipeClosed = TRUE
    /\ relayed = 0
    /\ waitCalled = FALSE
    /\ waitResult = "none"
    /\ deadline = 0
    /\ tickerNext = 0
    /\ tickerC = 0
    /\ statusNext = 0
    /\ statusC = 0
    /\ lastStatusTime = 0
    /\ resReady = FALSE
    /\ apiUp \in BOOLEAN
    /\ everReady = FALSE
    /\ v2Served = TRUE
    /\ gvr = "none"
    /\ calls = <<>>
    /\ errorReports = 0
    /\ InitEventsIdle
    /\ InitProberIdle
    /\ InitCallsIdle

NextLong ==
    \/ mainAfterCmd
    \/ WaitCtxDone
    \/ WaitStatusTick
    \/ WaitFastTick
    \/ ctxTimeout
    \/ AdvanceTimeLong
    \/ apiChanges

\* WaitForReady over a wait of more than two error-report windows
SpecLong == InitLong /\ [][NextLong]_vars

(* ------------------------------ stderr relay -------------------------- *)
\* a run of main for a HelmRelease in which flux writes to its stderr
InitRelay ==
    /\ InitMain
    /\ kind = "helmrelease"
    /\ ~resReady
    /\ apiUp
    /\ v2Served
    /\ InitEventsIdle
    /\ InitProberIdle
    /\ InitCallsIdle

NextRelay ==
    \/ mainSetup
    \/ mainStartCmd
    \/ fluxWrites
    \/ fluxExits
    \/ fluxKilled
    \/ stderrScan
    \/ processStderr
    \/ mainCmdWait
    \/ mainAfterCmd
    \/ ctxTimeout
    \/ AdvanceTime

\* main up to the call of WaitForReady, with the output of flux
SpecRelay == InitRelay /\ [][NextRelay]_vars

(* ----------------------- Status Prober on documents ------------------- *)
\* checkResourceReady reads the document
probeReady ==
    /\ ~readyResult.called
    /\ LET r == checkResourceReadyDoc(doc)
       IN  readyResult' = [called |-> TRUE, ready |-> r.ready, err |-> r.err]
    /\ UNCHANGED <<mainVars, eventVars, callVars, doc, statusResult>>

\* getResourceStatus reads the document
probeSummary ==
    /\ ~statusResult.called
    /\ LET r == getResourceStatusDoc(doc)
       IN  statusResult' = [called |-> TRUE, status |-> r.status, message |-> r.message]
    /\ UNCHANGED <<mainVars, eventVars, callVars, doc, readyResult>>

NextProber ==
    \/ probeReady
    \/ probeSummary

\* the two functions of the Status Prober applied to a fetched document
InitProber ==
    /\ InitMain
    /\ kind = "helmrelease"
    /\ wait
    /\ timeout = TimeoutSecs
    /\ ~resReady
    /\ apiUp
    /\ v2Served
    /\ InitEventsIdle
    /\ doc \in Docs
    /\ readyResult = [called |-> FALSE, ready |-> FALSE, err |-> FALSE]
    /\ statusResult = [called |-> FALSE, status |-> "", message |-> <<>>]
    /\ InitCallsIdle

SpecProber == InitProber /\ [][NextProber]_vars

(* ------------------- concurrent calls of checkEvents ------------------ *)
Callers == 1..MaxCallers

\* MutexFreeAlways: Lock that never waits for the holder
MutexFreeAlways(holder) == TRUE

\* m.mu.Lock() returns only while nobody holds the mutex
MutexFree(holder) == holder = 0

\* the List call and the loop that builds hash; the call returns at once when the
\* List call fails or the list is empty
callList(c) ==
    /\ callPc[c] = "idle"
    /\ \E err \in BOOLEAN :
        IF err \/ Len(items) = 0
        THEN /\ callPc' = [callPc EXCEPT ![c] = "done"]
             /\ UNCHANGED callHash
        ELSE /\ callPc' = [callPc EXCEPT ![c] = "hashed"]
             /\ callHash' = [callHash EXCEPT ![c] = Fingerprint(items)]
    /\ UNCHANGED <<mainVars, proberVars, eventVars, mu, callEmit>>

\* m.mu.Lock()
callLock(c) ==
    /\ callPc[c] = "hashed"
    /\ MutexFree(mu)
    /\ mu' = c
    /\ callPc' = [callPc EXCEPT ![c] = "locked"]
    /\ UNCHANGED <<mainVars, proberVars, eventVars, callHash, callEmit>>

\* if hash != m.lastHash
callCompare(c) ==
    /\ callPc[c] = "locked"
    /\ IF callHash[c] # lastHash
       THEN /\ callPc' = [callPc EXCEPT ![c] = "differs"]
            /\ callEmit' = [callEmit EXCEPT ![c] = TRUE]
       ELSE /\ callPc' = [callPc EXCEPT ![c] = "same"]
            /\ UNCHANGED callEmit
    /\ UNCHANGED <<mainVars, proberVars, eventVars, mu, callHash>>

\* m.lastHash = hash
callUpdate(c) ==
    /\ callPc[c] = "differs"
    /\ lastHash' = UpdatedHash(callHash[c], lastHash)
    /\ callPc' = [callPc EXCEPT ![c] = "updated"]
    /\ UNCHANGED <<mainVars, proberVars, items, watchPc, printed, polled, polls, prevItems,
                   lastShown, listErr, mu, callHash, callEmit>>

\* m.mu.Unlock(), in either branch
callUnlock(c) ==
    /\ callPc[c] \in {"updated", "same"}
    /\ mu' = 0
    /\ callPc' = [callPc EXCEPT ![c] = IF callPc[c] = "updated" THEN "printing" ELSE "done"]
    /\ UNCHANGED <<mainVars, proberVars, eventVars, callHash, callEmit>>

\* the loop that prints the most recent events
callPrint(c) ==
    /\ callPc[c] = "printing"
    /\ printed' = ShowFrom(items, Len(items), 0)
    /\ lastShown' = printed'
    /\ callPc' = [callPc EXCEPT ![c] = "done"]
    /\ UNCHANGED <<mainVars, proberVars, items, watchPc, lastHash, polled, polls, prevItems,
                   listErr, mu, callHash, callEmit>>

NextCalls ==
    \/ \E c \in Callers : callList(c)
    \/ \E c \in Callers : callLock(c)
    \/ \E c \in Callers : callCompare(c)
    \/ \E c \in Callers : callUpdate(c)
    \/ \E c \in Callers : callUnlock(c)
    \/ \E c \in Callers : callPrint(c)

\* the event lists the concurrent calls are given
CallLists == {<<>>} \cup {<<e>> : e \in Events} \cup {<<e, f>> : e, f \in Events}

\* several checkEvents calls start on one Monitor while the event list stays as
\* it is; m.lastHash is empty, the fingerprint of the list, or that of another list
InitCalls ==
    /\ InitMain
    /\ kind = "helmrelease"
    /\ wait
    /\ timeout = TimeoutSecs
    /\ ~resReady
    /\ apiUp
    /\ v2Served
    /\ items \in CallLists
    /\ lastHash \in {<<>>, Fingerprint(items)} \cup {Fingerprint(<<e>>) : e \in Events}
    /\ printed = <<>>
    /\ polled = FALSE
    /\ polls = 0
    /\ prevItems = <<>>
    /\ lastShown = <<>>
    /\ listErr = FALSE
    /\ watchPc = "none"
    /\ InitProberIdle
    /\ InitCallsIdle

SpecCalls == InitCalls /\ [][NextCalls]_vars

(* ============================= the claims ============================= *)
\* steps of the programme that the claims speak about
FastTickStep == mainPc = "waitLoop" /\ tickerC = 1 /\ tickerC' = 0
StatusTickStep == mainPc = "waitLoop" /\ statusC = 1 /\ statusC' = 0
SignalStep == sigChan = 1 /\ sigChan' = 0
\* a readiness probe made now would fail
ProbeFails == ~apiUp \/ ctxErr # "none" \/ (gvr = "helm/v2" /\ ~v2Served)

\* C1: in a run of main without interrupts in which the resource never reports
\* Ready=True, WaitForReady ends with the timeout error and no other outcome.
C1_TimeoutIsTheOutcome ==
    (waitResult # "none" /\ ~everReady /\ sigsSent = 0) => waitResult = "Timeout"

\* C2 (as stated): a fast-poll tick handled while the resource is Ready, the
\* probe succeeds and the context is not cancelled returns success.
C2_ReadyAtNextTick ==
    [][(FastTickStep /\ resReady /\ ~ProbeFails) => waitResult' = "Ready"]_vars

\* C2 (amended): a fast-poll tick handled no later than the deadline, while the
\* resource is Ready, the probe succeeds and the context is not cancelled, returns
\* success (main then ends with status 0); handling a status tick neither consumes
\* the fast-poll tick nor returns.
C2_ReadyAtNextTickBeforeDeadline ==
    [][/\ (FastTickStep /\ resReady /\ ~ProbeFails /\ now <= deadline)
            => (waitResult' = "Ready" /\ exitStatus' = 0)
       /\ StatusTickStep => (tickerC' = tickerC /\ waitResult' = waitResult)]_vars

\* C2 witness: success was returned while a status tick was pending
C2_Witness == waitResult = "Ready" /\ statusC = 1 /\ exitStatus = 0

C4_SpacedSignalsOnlyCancel ==
    [][/\ (SignalStep /\ UnixNano(now) - lastInterruptNano >= interruptWindowNano)
            => (interruptCount' = 1 /\ ctxErr' # "none" /\ exitStatus' = -1
                /\ exitBy' = "none")
       /\ (exitBy' = "signal" /\ exitBy = "none")
            => (SignalStep /\ UnixNano(now) - lastInterruptNano < interruptWindowNano)]_vars

\* C4 witness: a second signal received at least the window after the first has
\* reset the count to 1 and the process still runs
C4_Witness ==
    /\ Running
    /\ sigsHandled = 2
    /\ interruptCount = 1
    /\ ctxErr = "canceled"

\* C5: with --wait, main ends with status 0 only if flux exited with success and
\* WaitForReady returned nil.
C5_SuccessNeedsReady ==
    (exitBy = "main" /\ exitStatus = 0 /\ wait)
        => (cmdState = "exited" /\ cmdCode = 0 /\ waitResult = "Ready")

\* C6: WaitForReady is called only after flux has exited with success; when flux
\* failed or was killed, WaitForReady has not been called.
C6_WaitOnlyAfterSuccess ==
    /\ waitCalled => (cmdState = "exited" /\ cmdCode = 0 /\ stderrDone)
    /\ (cmdState = "exited" /\ cmdCode # 0) => (~waitCalled /\ waitResult = "none")
    /\ (exitBy = "main" /\ cmdState = "exited" /\ cmdCode # 0)
            => exitStatus = ExitStatusOf(cmdCode)

\* C6 witness: flux was killed after a cancellation, waiting was requested and
\* possible, and the process has exited without calling WaitForReady
C6_Witness ==
    /\ exitBy = "main"
    /\ cmdCode = -1
    /\ wait /\ eventMonitor
    /\ ctxErr # "none"
    /\ ~waitCalled

\* C7: once the context is done, the next step of the wait loop returns the
\* context's error; no tick is handled and no other result is returned.
C7_CancelledAtOnce ==
    [][(mainPc = "waitLoop" /\ ctxErr # "none"
          /\ (FastTickStep \/ StatusTickStep \/ waitResult' # waitResult))
         => waitResult' = "Cancelled"]_vars

\* C8: a fast-poll tick whose probe fails before the deadline leaves WaitForReady
\* waiting; the loop is left only by the deadline, by cancellation or by a probe
\* that succeeded and found the resource Ready.
C8_ProbeErrorsNeverEndTheWait ==
    [][/\ (FastTickStep /\ ProbeFails /\ now <= deadline)
            => (waitResult' = "none" /\ mainPc' = "waitLoop" /\ exitStatus' = -1)
       /\ (mainPc = "waitLoop" /\ waitResult' # waitResult)
            => \/ waitResult' = "Timeout" /\ FastTickStep /\ now > deadline
               \/ waitResult' = "Cancelled" /\ ctxErr # "none"
               \/ waitResult' = "Ready" /\ FastTickStep /\ resReady /\ ~ProbeFails]_vars

\* C8 witness: a probe error has been reported (lastStatusTime moved off the start
\* time) and the loop is still waiting
C8_Witness ==
    /\ Running
    /\ mainPc = "waitLoop"
    /\ waitResult = "none"
    /\ lastStatusTime > deadline - timeout

\* a checkEvents call that listed the events
PollStep == polls' = polls + 1 /\ polled' /\ prevItems' = items
\* some field of one of the 3 most recent events differs from the previous list
RecentChanged ==
    /\ Len(items) = Len(prevItems)
    /\ \E i \in 1..Len(items) : i >= Len(items) - HashedEvents + 1 /\ items[i] # prevItems[i]

\* C9: a checkEvents call that lists the same events as the previous successful
\* call prints nothing and leaves lastHash unchanged.
C9_UnchangedListPrintsNothing ==
    [][(PollStep /\ polled /\ items = prevItems)
         => (printed' = <<>> /\ lastHash' = lastHash)]_vars

\* C9 witness: a third call has seen the list of the second call, which printed
C9_Witness ==
    /\ polls = 3
    /\ polled
    /\ items = prevItems
    /\ Len(items) >= 2
    /\ lastHash = Fingerprint(items)
    /\ printed = <<>>

\* C10: when a field of one of the 3 most recent events has changed since the
\* previous successful call, the fingerprint differs from lastHash and the call
\* prints min(2, length) notices.
C10_ChangedListPrints ==
    [][(PollStep /\ polled /\ RecentChanged)
         => (Fingerprint(items) # lastHash
             /\ Len(printed') = Min(ShownEvents, Len(items)))]_vars

\* the list holds the events of the previous successful call, the same 2 most
\* recent ones among them
SameShownEvents ==
    /\ Len(items) = Len(prevItems)
    /\ Len(items) > ShownEvents
    /\ \A i \in 1..Len(items) : i > Len(items) - ShownEvents => items[i] = prevItems[i]

\* C11: a checkEvents call that prints never prints the batch of notices that
\* the latest printing call before it printed; here for a list whose 2 most recent
\* events are the ones the previous call saw (no event was added).
C11_NoBatchTwiceInARow ==
    [][(polls' = polls + 1 /\ printed' # <<>> /\ lastShown # <<>> /\ SameShownEvents)
         => printed' # lastShown]_vars

\* C12: a checkEvents call whose List call fails prints nothing, leaves lastHash
\* as it was, leaves Watch running and changes nothing of main or of WaitForReady;
\* no checkEvents call, failed or not, changes the result of WaitForReady or ends
\* the process; Watch returns only when its context is done.
C12_ListFailureChangesNothing ==
    [][/\ (polls' = polls + 1 /\ listErr')
            => (printed' = <<>> /\ lastHash' = lastHash /\ watchPc' = "running"
                /\ mainVars' = mainVars)
       /\ (polls' = polls + 1)
            => (waitResult' = waitResult /\ exitStatus' = exitStatus /\ mainPc' = mainPc)
       /\ (watchPc = "running" /\ watchPc' # "running") => ctxErr # "none"]_vars

\* C12 witness: after a call that printed, the latest call failed, lastHash is
\* kept, Watch still runs and WaitForReady has returned success
C12_Witness ==
    /\ listErr
    /\ polls >= 2
    /\ lastHash # <<>>
    /\ watchPc = "running"
    /\ waitResult = "Ready"

\* the step in which main calls WaitForReady
WaitEnterStep == mainPc = "stderrWait" /\ ~waitCalled /\ waitCalled'

C14_CoordinatesFixedForTheRun ==
    [][/\ (gvr' # gvr) => (WaitEnterStep /\ gvr = "none" /\ calls' = <<>>)
       /\ (FastTickStep \/ StatusTickStep)
            => /\ gvr # "none"
               /\ gvr' = gvr
               /\ calls' # <<>>
               /\ \A i \in 1..Len(calls') : calls'[i].gvr = gvr
       /\ (WaitEnterStep /\ kind = "helmrelease" /\ ~(v2Served /\ apiUp /\ ctxErr = "none"))
            => gvr' = "helm/v2beta1"]_vars

\* C14 witness: the v2 existence check failed while the API was down; with the API
\* back and v2 served, the readiness probe that returned success still used v2beta1
C14_Witness ==
    /\ waitResult = "Ready"
    /\ v2Served
    /\ gvr = "helm/v2beta1"
    /\ calls = <<Call("checkResourceReady", "helm/v2beta1")>>

\* the document has a conditions list with an entry of type Ready and status True
HasReadyTrue(d) ==
    /\ d.status = "map"
    /\ d.conditions = "list"
    /\ \E i \in 1..Len(d.list) :
        d.list[i].isMap /\ d.list[i].type = <<"Ready">> /\ d.list[i].status = <<"True">>

\* C15: checkResourceReady returns true exactly for a document whose conditions
\* hold an entry Ready=True, wherever it stands in the list, and getResourceStatus
\* returns the status "ready" for exactly the same documents.
C15_ReadyIffReadyTrue ==
    /\ readyResult.called => (readyResult.ready <=> HasReadyTrue(doc))
    /\ statusResult.called => ((statusResult.status = "ready") <=> HasReadyTrue(doc))
    /\ (readyResult.called /\ statusResult.called)
            => (readyResult.ready <=> statusResult.status = "ready")

\* C15 witness: both functions found Ready=True standing after a Ready condition
\* that is not True
C15_Witness ==
    /\ readyResult.called /\ readyResult.ready
    /\ statusResult.called /\ statusResult.status = "ready"
    /\ Len(doc.list) = 2
    /\ doc.list[1].type = <<"Ready">> /\ doc.list[1].status = <<"False">>
    /\ doc.list[2].type = <<"Ready">> /\ doc.list[2].status = <<"True">>

\* the step in which main, past stderrWg.Wait(), inspects cmdErr
InspectStep == mainPc = "stderrWait" /\ stderrDone /\ (mainPc' # mainPc \/ exitBy' = "main")

\* C16: when main inspects cmdErr, processStderr has returned and every line that
\* flux wrote to its stderr has been passed on; no line is passed on afterwards.
C16_StderrDrainedBeforeInspection ==
    [][/\ InspectStep => (stderrDone /\ stderrPipe = 0)
       /\ (relayed' # relayed) => (mainPc \in {"cmdWait", "stderrWait"} /\ ~stderrDone)]_vars

\* the kinds getResourceGVR has a case for
SupportedKinds ==
    {"kustomization", "helmrelease", "git", "gitrepository", "oci", "ocirepository"}

\* C17: for a Monitor of a kind without coordinates, the call of WaitForReady
\* returns the unsupported-kind error in its first step, with no Status Prober
\* call and no tick handled, and nothing of the run follows it; for the other
\* kinds this error is never returned.
C17_UnsupportedKindFailsAtOnce ==
    [][/\ (WaitEnterStep /\ monitorKind \notin SupportedKinds)
            => /\ waitResult' = "Unsupported"
               /\ calls' = <<>>
               /\ mainPc' # "waitLoop"
               /\ exitStatus' = 1
       /\ (WaitEnterStep /\ monitorKind \in SupportedKinds)
            => (waitResult' = "none" /\ mainPc' = "waitLoop")
       /\ (waitResult = "Unsupported") => (gvr' = gvr /\ calls' = calls /\ waitResult' = waitResult)
       /\ (FastTickStep \/ StatusTickStep) => waitResult # "Unsupported"]_vars

\* C17 witness: WaitForReady of a Monitor for kind "bucket" has returned the
\* unsupported-kind error without a Status Prober call
C17_Witness ==
    /\ kind = "bucket"
    /\ waitCalled
    /\ waitResult = "Unsupported"
    /\ gvr = "unsupported"
    /\ calls = <<>>
    /\ exitStatus = 1

\* the entries of a summary, as C18 words them
IsReadyCond(c) == c.isMap /\ c.type = <<"Ready">>
IsFailedOther(c) ==
    c.isMap /\ c.type # <<"Ready">> /\ c.status = <<"False">> /\ c.message # <<>>
InSummary(c) == IsReadyCond(c) \/ IsFailedOther(c)
EntryOf(c) ==
    IF IsReadyCond(c)
    THEN <<"Ready", "=">> \o c.status
            \o (IF c.message = <<>> THEN <<>> ELSE <<" (">> \o c.message \o <<")">>)
    ELSE c.type \o <<"=">> \o c.status \o <<": ">> \o c.message
RECURSIVE CommaJoined(_)
CommaJoined(cs) ==
    IF cs = <<>> THEN <<>>
    ELSE EntryOf(Head(cs)) \o (IF Tail(cs) = <<>> THEN <<>> ELSE <<", ">> \o CommaJoined(Tail(cs)))

\* getResourceStatus has read a conditions list with a Ready condition, none True
NotReadySummarised ==
    /\ statusResult.called
    /\ doc.conditions = "list"
    /\ \E i \in 1..Len(doc.list) : IsReadyCond(doc.list[i])
    /\ ~HasReadyTrue(doc)

\* C18 (as stated): the summary is the Ready entry first, then the entries of the
\* other conditions with status False and a message, joined with ", ".
C18_ReadyEntryFirst ==
    NotReadySummarised
        => /\ statusResult.status = "not ready"
           /\ statusResult.message =
                CommaJoined(SelectSeq(doc.list, IsReadyCond) \o SelectSeq(doc.list, IsFailedOther))

\* C18 (amended): the summary holds one entry for every Ready condition and for
\* every other condition with status False and a message, in the order of the
\* conditions list, joined with ", "; all other conditions are left out.
C18_EntriesInListOrder ==
    NotReadySummarised
        => /\ statusResult.status = "not ready"
           /\ statusResult.message = CommaJoined(SelectSeq(doc.list, InSummary))

\* C18 witness: a failed Healthy condition stands before Ready=False and comes
\* first in the summary
C18_Witness ==
    /\ statusResult.called
    /\ doc.list = <<Cond(<<"Healthy">>, <<"False">>, <<"msg">>),
                    Cond(<<"Ready">>, <<"False">>, <<>>)>>
    /\ statusResult.message =
         <<"Healthy", "=", "False", ": ", "msg", ", ", "Ready", "=", "False">>

\* C19: a fast-poll tick handled after the deadline calls getResourceStatus once
\* and nothing else, and returns the timeout error whatever the resource reports;
\* a tick handled up to the deadline calls checkResourceReady instead.
C19_DeadlineCheckedFirst ==
    [][/\ (FastTickStep /\ now > deadline)
            => /\ calls' = <<Call("getResourceStatus", gvr)>>
               /\ waitResult' = "Timeout"
               /\ exitStatus' = 1
       /\ (FastTickStep /\ now <= deadline)
            => calls' = <<Call("checkResourceReady", gvr)>>]_vars

\* C19 witness: the timeout error was returned on a tick at which the resource
\* was Ready and a probe would have succeeded
C19_Witness ==
    /\ waitResult = "Timeout"
    /\ resReady /\ ~ProbeFails
    /\ now > deadline
    /\ Len(calls) = 1
    /\ calls[1].fn = "getResourceStatus"

\* C20: "Unable to check status" is printed only on a fast-poll tick whose probe
\* failed more than 10 seconds after lastStatusTime, which is then set to the
\* time of the report; lastStatusTime changes in no other step of the loop, so two
\* reports are more than 10 seconds apart; the loop goes on after every probe
\* error, reported or not.
C20_ErrorReportsRateLimited ==
    [][/\ (mainPc = "waitLoop" /\ errorReports' # errorReports)
            => /\ FastTickStep /\ ProbeFails /\ now <= deadline
               /\ now - lastStatusTime > ErrorReportWindow
               /\ errorReports' = errorReports + 1
               /\ lastStatusTime' = now
       /\ (mainPc = "waitLoop" /\ lastStatusTime' # lastStatusTime)
            => errorReports' = errorReports + 1
       /\ StatusTickStep => (lastStatusTime' = lastStatusTime /\ errorReports' = errorReports)
       /\ (FastTickStep /\ ProbeFails /\ now <= deadline)
            => (waitResult' = "none" /\ mainPc' = "waitLoop" /\ exitStatus' = -1)]_vars

\* C20 witness: a second report has been made and the loop is still waiting
C20_Witness ==
    /\ mainPc = "waitLoop"
    /\ Running
    /\ errorReports = 2
    /\ now - lastStatusTime <= ErrorReportWindow

Emitters == {c \in Callers : callEmit[c]}
Compared(c) == callPc[c] \in {"differs", "updated", "same", "printing"}
                   \/ (callPc[c] = "done" /\ callHash[c] # <<>>)

\* C22: among concurrent checkEvents calls on one unchanged event list at most one
\* decides to emit; as soon as a call has done the comparison, either exactly one
\* call has decided to emit, or none has and lastHash is the fingerprint of the
\* list already; a call that finds its fingerprint different from lastHash
\* decides to emit; and lastHash changes only in a step of a call that emits.
C22_OneCallEmits ==
    [][/\ Cardinality(Emitters') <= 1
       /\ (\E c \in Callers : Compared(c)')
            => \/ Cardinality(Emitters') = 1
               \/ Emitters' = {} /\ lastHash' = Fingerprint(items')
       /\ \A c \in Callers :
            (callPc[c] = "locked" /\ callPc'[c] # "locked" /\ callHash[c] # lastHash)
                => callEmit'[c]
       /\ lastHash' # lastHash
            => \E c \in Callers : /\ callEmit[c]
                                  /\ callPc[c] = "differs"
                                  /\ callPc'[c] = "updated"
                                  /\ lastHash' = callHash[c]]_vars

\* C22 witness: two calls computed a fingerprint that differed from lastHash; one
\* of them updated lastHash and is about to print, the other one found lastHash
\* equal to its fingerprint and emits nothing
C22_Witness ==
    \E c, d \in Callers :
        /\ c # d
        /\ callPc[c] = "printing"
        /\ callEmit[c]
        /\ callPc[d] = "same"
        /\ ~callEmit[d]
        /\ callHash[d] = lastHash
        /\ printed = <<>>

\* C23: WaitForReady returns success only in a fast-poll tick whose deadline check
\* found the deadline not passed and whose checkResourceReady call, the only
\* Status Prober call of the tick, returned (true, nil); the step is neither a
\* status-timer tick nor the ctx.Done() case, and the context is not cancelled.
C23_SuccessOnlyFromReadyProbe ==
    [][(waitResult' = "Ready" /\ waitResult # "Ready")
        => /\ FastTickStep
           /\ ~AfterDeadline(now, deadline)
           /\ checkResourceReady(gvr) = <<TRUE, FALSE>>
           /\ calls' = <<Call("checkResourceReady", gvr)>>
           /\ statusC' = statusC
           /\ ctxErr = "none"
           /\ ~ProbeFails]_vars

\* C23 witness: WaitForReady has returned success from a fast-poll tick handled at
\* the very deadline, the last moment the deadline check lets the probe run
C23_Witness ==
    /\ waitResult = "Ready"
    /\ calls = <<Call("checkResourceReady", gvr)>>
    /\ now = deadline
    /\ now > 0
    /\ ctxErr = "none"

\* C24: every WaitForReady call that main starts returns in the end, by the
\* context's deadline alone: time passes, the context expires at --timeout and the
\* ctx.Done() case is taken, whether the probes fail or the resource stays unready.
C24_WaitForReadyReturns == waitCalled ~> (waitResult # "none")

\* C24 witness: every probe failed, no interrupt arrived, and WaitForReady ended
\* with the context's deadline error before its own deadline check found the
\* deadline passed
C24_Witness ==
    /\ waitCalled
    /\ waitResult = "Cancelled"
    /\ ctxErr = "deadline"
    /\ ~apiUp
    /\ sigsSent = 0
    /\ now <= deadline

====
